---- MODULE Spec2Model ----
(***************************************************************************)
(* Model of the Teams webhook adapter (src/test-webhook/main.py): the      *)
(* session cache kept by create_session, the SSE aggregation loop of       *)
(* query_agent, and the dispatch of teams_webhook.                         *)
(*                                                                         *)
(* A Python string is modelled as a sequence of tokens: the characters     *)
(* "a", "b" and " " for text that comes from the remote stream or from a   *)
(* chat message, and one token per fixed literal of the program.           *)
(***************************************************************************)
EXTENDS Naturals, Sequences, FiniteSets, TLC

\* ------------------------------------------------------------------ bounds
\* lines read from one response stream
MaxLines == 3
\* parts in the content.parts list of one streamed event
MaxParts == 2
\* requests the webhook receives in one run
MaxRequests == 2

\* ----------------------------------------------------------------- strings
Whitespace == {" "}

RECURSIVE LStrip(_)
LStrip(s) ==
    IF s # <<>> /\ Head(s) \in Whitespace THEN LStrip(Tail(s)) ELSE s

RECURSIVE RStrip(_)
RStrip(s) ==
    IF s # <<>> /\ s[Len(s)] \in Whitespace
    THEN RStrip(SubSeq(s, 1, Len(s) - 1))
    ELSE s

\* the string itself, untrimmed
StripNoop(s) == s
\* str.strip()
Strip(s) == RStrip(LStrip(s))

\* the literals query_agent returns
NoResponseMsg == <<"I couldn't generate a response. Please try again.">>
TimeoutMsg == <<"The request timed out. Please try again.">>
HttpErrorPrefix == "Error: HTTP "
GenericErrorPrefix == "An error occurred: "

\* --------------------------------------------------------- streamed input
\* One element of content.parts. isMap: the part is a JSON object (on any
\* other value "'text' in part" raises TypeError); textIsStr: the value of
\* its 'text' field is a string (appending any other value to a str raises).
PartSet ==
    { [isMap |-> TRUE,  hasText |-> TRUE,  textIsStr |-> TRUE,  text |-> <<"a">>, hasFC |-> FALSE],
      [isMap |-> TRUE,  hasText |-> TRUE,  textIsStr |-> TRUE,  text |-> <<" ">>, hasFC |-> FALSE],
      [isMap |-> TRUE,  hasText |-> TRUE,  textIsStr |-> TRUE,  text |-> <<"a">>, hasFC |-> TRUE],
      [isMap |-> TRUE,  hasText |-> TRUE,  textIsStr |-> FALSE, text |-> <<>>,    hasFC |-> FALSE],
      [isMap |-> FALSE, hasText |-> FALSE, textIsStr |-> FALSE, text |-> <<>>,    hasFC |-> FALSE] }

SeqsUpTo(S, n) == UNION { [1..k -> S] : k \in 0..n }

NoParts == <<>>

\* A parsed JSON value. isObj: it is a JSON object; content: "absent", "other"
\* (present, not an object), "noparts" (an object without 'parts'), "badparts"
\* ('parts' is not a list of parts) or "parts"; top: the top-level 'text'
\* field, "absent", "str" or "other" (present, not a string).
Event(isObj, content, parts, top, text) ==
    [isObj |-> isObj, content |-> content, parts |-> parts, top |-> top, text |-> text]

NoEvent == Event(FALSE, "absent", NoParts, "absent", <<>>)

EventSet ==
    { Event(TRUE, "parts", ps, "absent", <<>>) : ps \in SeqsUpTo(PartSet, MaxParts) }
    \cup { Event(TRUE, c, NoParts, "absent", <<>>) : c \in {"absent", "other", "noparts", "badparts"} }
    \cup { Event(TRUE, "parts", <<p>>, "str", <<"b">>) : p \in {q \in PartSet : q.isMap /\ q.textIsStr} }
    \cup { Event(TRUE, "noparts", NoParts, "str", <<"b">>),
           Event(TRUE, "absent", NoParts, "str", <<"b">>),
           Event(TRUE, "absent", NoParts, "str", <<" ">>),
           Event(TRUE, "absent", NoParts, "other", <<>>),
           NoEvent }

\* One item of response.iter_lines(). kind: "empty" (b''), "undecodable"
\* (not UTF-8), "blank", "done" ([DONE]), "invalid" (not JSON) or "json";
\* sse: the line starts with 'data: '.
Line(kind, sse, data) == [kind |-> kind, sse |-> sse, data |-> data]

LineSet ==
    { Line("json", TRUE, e) : e \in EventSet }
    \cup { Line("json", FALSE, Event(TRUE, "absent", NoParts, "str", <<"b">>)),
           Line("json", FALSE, Event(TRUE, "parts", <<CHOOSE p \in PartSet : p.isMap /\ p.textIsStr /\ ~p.hasFC /\ p.text = <<"a">> >>, "absent", <<>>)) }
    \cup { Line(k, s, NoEvent) : k \in {"blank", "done", "invalid"}, s \in BOOLEAN }
    \cup { Line("empty", FALSE, NoEvent), Line("undecodable", FALSE, NoEvent) }

\* ------------------------------------------------- query_agent: SSE loop
\* the statement inside "for part in content['parts']" raises on this part
PartRaises(p) == ~p.isMap \/ (p.hasText /\ ~p.hasFC /\ ~p.textIsStr)

\* the text of a part, whether or not it has a 'function_call' field
PartTextIgnoringFC(p) == IF p.hasText THEN p.text ELSE <<>>
\* lines 165-170: the text a part adds to full_response
PartText(p) == IF p.hasText /\ ~p.hasFC THEN p.text ELSE <<>>

\* lines 163-172; an exception leaves the loop with what was added so far
RECURSIVE ProcessParts(_, _)
ProcessParts(full, parts) ==
    IF parts = <<>> THEN full
    ELSE IF PartRaises(Head(parts)) THEN full
    ELSE ProcessParts(full \o PartText(Head(parts)), Tail(parts))

\* the same with "if" for the "elif" of line 175
ProcessEventNoElif(full, data) ==
    LET afterContent ==
            IF data.isObj /\ data.content = "parts"
            THEN ProcessParts(full, data.parts) ELSE full
    IN  IF data.isObj /\ data.top = "str" THEN afterContent \o data.text
        ELSE afterContent
\* lines 159-177 for one parsed event
ProcessEvent(full, data) ==
    IF ~data.isObj THEN full
    ELSE IF data.content # "absent"
         THEN IF data.content = "parts" THEN ProcessParts(full, data.parts)
              ELSE full
    ELSE IF data.top = "str" THEN full \o data.text
    ELSE full

\* lines 139-186: the body of "for line in response.iter_lines()"
ProcessLine(full, l) ==
    IF l.kind = "json" THEN ProcessEvent(full, l.data) ELSE full

\* lines 188-194
ReturnValue(full) ==
    IF full # <<>> THEN Strip(full) ELSE NoResponseMsg

\* ------------------------------------------- query_agent: error handling
StatusCodes == {200, 304, 404, 503}

\* response.raise_for_status() (line 132) raises HTTPError
RaisesForStatus(status) == status >= 400 /\ status < 600

\* "if e.response" (lines 201, 204): the truth value of a Response is
\* response.ok, which is False for every status raise_for_status raises on
ResponseTruth(status) == ~RaisesForStatus(status)

NoException == [cls |-> "none", status |-> 0, msg |-> ""]
Timeout == [cls |-> "Timeout", status |-> 0, msg |-> ""]
HTTPError(status) == [cls |-> "HTTPError", status |-> status, msg |-> ""]
OtherException(msg) == [cls |-> "Exception", status |-> 0, msg |-> msg]

Messages == {"boom"}

\* the last except clause alone
ExceptReturnAllGeneric(e) == <<GenericErrorPrefix, e.msg>>
\* lines 196-209: the except clauses, tried in order
ExceptReturn(e) ==
    IF e.cls = "Timeout" THEN TimeoutMsg
    ELSE IF e.cls = "HTTPError"
         THEN <<HttpErrorPrefix,
                IF ResponseTruth(e.status) THEN ToString(e.status) ELSE "Unknown">>
    ELSE <<GenericErrorPrefix, e.msg>>

\* ------------------------------------------- query_agent as one operation
\* What the remote side does during one call of query_agent: token, whether
\* get_access_token succeeds; post, "timeout", "error" or "response" (with
\* its status); lines, the stream delivered; fail, how reading it ends
\* ("none": read to its end, "Timeout" or "Exception": iter_lines raises).
Run(token, post, st, lines, fail) ==
    [token |-> token, post |-> post, status |-> st, lines |-> lines, fail |-> fail]

TextLine(t) ==
    Line("json", TRUE,
         Event(TRUE, "parts",
               <<[isMap |-> TRUE, hasText |-> TRUE, textIsStr |-> TRUE, text |-> t, hasFC |-> FALSE]>>,
               "absent", <<>>))

RunSet ==
    { Run(FALSE, "response", 200, <<>>, "none"),
      Run(TRUE, "response", 503, <<>>, "none"),
      Run(TRUE, "response", 200, <<>>, "none"),
      Run(TRUE, "response", 200, <<TextLine(<<"a">>)>>, "none"),
      Run(TRUE, "response", 200, <<TextLine(<<" ">>)>>, "none"),
      Run(TRUE, "response", 200, <<TextLine(<<"a">>)>>, "Exception") }

RECURSIVE ReadLines(_, _)
ReadLines(full, lines) ==
    IF lines = <<>> THEN full
    ELSE ReadLines(ProcessLine(full, Head(lines)), Tail(lines))

\* the exception the try block of query_agent raises during this run
RunException(run) ==
    IF ~run.token THEN OtherException("boom")
    ELSE IF run.post = "timeout" THEN Timeout
    ELSE IF run.post = "error" THEN OtherException("boom")
    ELSE IF RaisesForStatus(run.status) THEN HTTPError(run.status)
    ELSE IF run.fail = "Timeout" THEN Timeout
    ELSE IF run.fail = "Exception" THEN OtherException("boom")
    ELSE NoException

\* lines 95-209
query_agent(run) ==
    IF RunException(run) # NoException THEN ExceptReturn(RunException(run))
    ELSE ReturnValue(ReadLines(<<>>, run.lines))

\* stream-query POSTs sent (line 122): none when line 99 raises
StreamQueries(run) == IF run.token THEN 1 ELSE 0

\* --------------------------------------------------------- create_session
ConvKeys == {"default", "c1"}

RemoteId(n) == [kind |-> "remote", n |-> n]
FallbackId(n) == [kind |-> "fallback", n |-> n]
NoId == [kind |-> "none", n |-> 0]

\* How lines 41-79 end: "token_error" (line 42 raises), "rpc_error" (line 61,
\* 70, 71 or 75 raises: a network error, a 4xx or 5xx status, a body that is
\* not JSON or not of the expected shape), "no_id" (the result has no or an
\* empty output.id), "ok".
CreateOutcomes == {"token_error", "rpc_error", "no_id", "ok"}

CreateFailures == CreateOutcomes \ {"ok"}

\* the session-creation POST of line 61 is sent
RpcSent(o) == o # "token_error"

\* the same without the check of line 77
SessionIdNoFallbackOnMissingId(o, n) ==
    IF o \in {"ok", "no_id"} THEN RemoteId(n) ELSE FallbackId(n)
\* lines 75-79 and 86-91: the id create_session stores and returns; n makes
\* the id fresh (the remote service's new session, or uuid4)
SessionIdFor(o, n) ==
    IF o = "ok" THEN RemoteId(n) ELSE FallbackId(n)

\* a check that always misses
NeverCached(map, c) == FALSE
\* line 37: conversation_id in sessions
Cached(map, c) == c \in DOMAIN map

\* sessions.setdefault(conversation_id, session_id)
StoreKeepFirst(map, c, id) ==
    [k \in DOMAIN map \cup {c} |-> IF k \in DOMAIN map THEN map[k] ELSE id]
\* sessions = {conversation_id: session_id}
StoreDropOthers(map, c, id) == [k \in {c} |-> id]
\* lines 81 and 92: sessions[conversation_id] = session_id
Store(map, c, id) ==
    [k \in DOMAIN map \cup {c} |-> IF k = c THEN id ELSE map[k]]

\* ---------------------------------------------------------- teams_webhook
\* An HTTP request. body is what request.get_json() makes of it: "none"
\* (returns None), "malformed" (raises), "falsy" (an empty object, list or
\* string, 0, false), "nonobj" (any other value that is not an object) or
\* "activity" (a non-empty JSON object). Of an activity: conv is the id in
\* its 'conversation' field, "absent" when there is no such field or no id in
\* it, "other" when the field is not an object; from likewise for 'from';
\* textKind and text are its 'text' field ("absent", "str" or "other"); members
\* is its 'membersAdded' field ("absent", "empty" or "nonempty").
Request(method, path, body, type, conv, from, textKind, text, members) ==
    [method |-> method, path |-> path, body |-> body, type |-> type,
     conv |-> conv, from |-> from, textKind |-> textKind, text |-> text,
     members |-> members]

Plain(method, path, body) ==
    Request(method, path, body, "none", "absent", "absent", "absent", <<>>, "absent")

Activity(path, type, conv, from, textKind, text, members) ==
    Request("POST", path, "activity", type, conv, from, textKind, text, members)

NoRequest == Plain("none", "", "none")

RequestSet ==
    { Plain(m, p, "none") : m \in {"GET", "OPTIONS"},
                             p \in {"/", "/api/messages", "/health"} }
    \cup { Activity("/api/messages", "message", "c1", "u1", "str", <<" ", "a", " ">>, "absent") }
    \cup { Plain("POST", "/", b) : b \in {"none", "malformed", "falsy", "nonobj"} }
    \cup { Activity("/", "message", c, f, "str", <<" ", "a", " ">>, "absent") :
                c \in {"absent", "c1"}, f \in {"absent", "u1", "u2"} }
    \cup { Activity("/", "message", "c1", "u1", k, t, "absent") :
                k \in {"absent", "str", "other"}, t \in {<<>>, <<" ">>} }
    \cup { Activity("/", "conversationUpdate", c, f, "absent", <<>>, "nonempty") :
                c \in {"absent", "c1"}, f \in {"absent", "u1"} }
    \cup { Activity("/", "conversationUpdate", "c1", "u1", "absent", <<>>, m) :
                m \in {"absent", "empty"} }
    \cup { Activity("/", "message", c, f, "str", t, "absent") :
                c \in {"other"}, f \in {"u1"}, t \in {<<>>, <<" ", "a", " ">>} }
    \cup { Activity("/", "message", c, f, "str", t, "absent") :
                c \in {"c1"}, f \in {"other"}, t \in {<<>>, <<" ", "a", " ">>} }
    \cup { Activity("/", "conversationUpdate", "other", "u1", "absent", <<>>, "nonempty"),
           Activity("/", "typing", "c1", "u1", "absent", <<>>, "absent") }
    \cup { Activity("/health", "message", "c1", "u1", "str", t, "absent") :
                t \in {<<>>, <<" ", "a", " ">>} }
    \cup { Activity("/health", "conversationUpdate", "c1", "u1", "absent", <<>>, "nonempty") }

\* line 247: activity.get('conversation', {}).get('id', 'default')
ConversationId(r) == IF r.conv = "absent" THEN "default" ELSE r.conv
\* line 250: from_user.get('id', 'teams-user')
UserId(r) == IF r.from = "absent" THEN "teams-user" ELSE r.from
\* activity.get('text', '')
UserMessageNoStrip(r) == IF r.textKind = "str" THEN r.text ELSE <<>>
\* line 286: activity.get('text', '').strip()
UserMessage(r) == IF r.textKind = "str" THEN Strip(r.text) ELSE <<>>

\* The line at which the statements of lines 241-308 raise for request r, 0
\* when none does: get_json() on a body that is not JSON (241), .get on a
\* body that is not an object (246), on a 'conversation' field that is not an
\* object (247), on a 'from' field that is not an object (249), .strip() on a
\* 'text' that is not a string (286).
RaisingLine(r) ==
    IF r.body = "malformed" THEN 241
    ELSE IF r.body \in {"none", "falsy"} THEN 0
    ELSE IF r.body = "nonobj" THEN 246
    ELSE IF r.conv = "other" THEN 247
    ELSE IF r.from = "other" THEN 249
    ELSE IF r.type = "conversationUpdate" /\ r.members = "nonempty" THEN 0
    ELSE IF r.type = "message" /\ r.textKind = "other" THEN 286
    ELSE 0

\* a try block that starts after the body is read
GuardedAfterGetJson(ln) == ln \in 242..308
\* lines 240-310: the statement is inside the try block of teams_webhook
Guarded(ln) == ln \in 240..308

\* the same with a health check that looks at the method only
RouteHealthByMethod(r) ==
    IF r.method = "GET" THEN "health"
    ELSE IF r.method = "OPTIONS" THEN "preflight"
    ELSE IF RaisingLine(r) # 0
         THEN IF Guarded(RaisingLine(r)) THEN "error" ELSE "escape"
    ELSE IF r.body \in {"none", "falsy"} THEN "no_activity"
    ELSE IF r.type = "conversationUpdate" /\ r.members = "nonempty" THEN "welcome"
    ELSE IF r.type = "message"
         THEN IF UserMessage(r) = <<>> THEN "empty" ELSE "message"
    ELSE "ok"

\* lines 219-308: the branch of the handler a request takes. "error" is the
\* except clause of line 310, reached when a statement inside the try block
\* raises; "escape" is an exception that leaves the handler.
Route(r) ==
    IF r.path = "/health" \/ r.method = "GET" THEN "health"
    ELSE IF r.method = "OPTIONS" THEN "preflight"
    ELSE IF RaisingLine(r) # 0
         THEN IF Guarded(RaisingLine(r)) THEN "error" ELSE "escape"
    ELSE IF r.body \in {"none", "falsy"} THEN "no_activity"
    ELSE IF r.type = "conversationUpdate" /\ r.members = "nonempty" THEN "welcome"
    ELSE IF r.type = "message"
         THEN IF UserMessage(r) = <<>> THEN "empty" ELSE "message"
    ELSE "ok"

\* a response: (body, status); active is the 'active_sessions' of the health
\* body, text the 'text' or 'error' field of the others
Response(st, kind, text, active) ==
    [status |-> st, kind |-> kind, text |-> text, active |-> active]

NoResponse == Response(0, "none", <<>>, 0)

WelcomeMessage == <<"Hello! I'm your ServiceNow assistant powered by Google Agent Engine. ...">>
Apology == <<"Sorry, I encountered an error.">>
\* no response: the exception leaves teams_webhook
Escaped == Response(0, "escaped", <<>>, 0)

\* the same with a health body that does not count the sessions
DirectResponseNoCount(route, map) ==
    IF route = "health" THEN Response(200, "health", <<"healthy">>, 0)
    ELSE IF route = "preflight" THEN Response(204, "preflight", <<>>, 0)
    ELSE IF route = "no_activity" THEN Response(400, "error", <<"No activity data">>, 0)
    ELSE IF route = "empty" THEN Response(400, "error", <<"Empty message">>, 0)
    ELSE IF route = "error" THEN Response(500, "message", Apology, 0)
    ELSE IF route = "escape" THEN Escaped
    ELSE Response(200, "status", <<"ok">>, 0)
\* the responses of the branches that call neither create_session nor
\* query_agent (lines 221-228, 237, 244, 289, 308, 315-318)
DirectResponse(route, map) ==
    IF route = "health" THEN Response(200, "health", <<"healthy">>, Cardinality(DOMAIN map))
    ELSE IF route = "preflight" THEN Response(204, "preflight", <<>>, 0)
    ELSE IF route = "no_activity" THEN Response(400, "error", <<"No activity data">>, 0)
    ELSE IF route = "empty" THEN Response(400, "error", <<"Empty message">>, 0)
    ELSE IF route = "error" THEN Response(500, "message", Apology, 0)
    ELSE IF route = "escape" THEN Escaped
    ELSE Response(200, "status", <<"ok">>, 0)

\* lines 279-282
WelcomeResponse == Response(200, "message", WelcomeMessage, 0)
\* a reply that ignores the string query_agent returned
MessageResponseFixed(text) == Response(200, "message", NoResponseMsg, 0)
\* lines 303-306
MessageResponse(text) == Response(200, "message", text, 0)

\* ---------------------------------------------------------------- tools.py
\* a value passed for a parameter of a tool: a string, or None
Str(s) == [none |-> FALSE, s |-> s]
None == [none |-> TRUE, s |-> ""]
\* the truth value Python's "if v:" takes
Truthy(v) == ~v.none /\ v.s # ""

\* the functions of snow_tools (lines 855-890), by the shape of their code
SimpleTools ==
    {"list_incidents", "get_incident", "list_service_requests",
     "create_service_request", "get_service_request", "list_catalog_items",
     "search_catalog_items", "get_catalog_item_details",
     "list_catalog_categories", "list_change_requests", "get_change_request",
     "list_assignment_groups", "get_assignment_group", "search_users",
     "get_my_info", "list_problems", "get_problem"}
CreateTools == {"create_incident", "create_change_request"}
UpdateTools == {"update_incident", "update_change_request"}
InfoTools == {"get_priority_urgency_info", "get_change_types_info"}
snow_tools ==
    SimpleTools \cup CreateTools \cup UpdateTools \cup InfoTools
        \cup {"get_incident_categories"}

\* the optional parameters of the signatures (lines 75-77, 582-585, 151-153,
\* 657-658)
OptionalParams(fn) ==
    IF fn = "create_incident"
    THEN {"description", "priority", "urgency", "assignment_group",
          "assigned_to", "category", "subcategory"}
    ELSE IF fn = "create_change_request"
    THEN {"description", "type", "risk", "priority", "assignment_group",
          "start_date", "end_date"}
    ELSE IF fn = "update_incident"
    THEN {"state", "work_notes", "close_notes", "assignment_group", "assigned_to"}
    ELSE IF fn = "update_change_request"
    THEN {"state", "work_notes", "close_notes"}
    ELSE {}

\* the default of a parameter the caller does not supply
Default(fn, p) ==
    IF fn \in UpdateTools THEN None
    ELSE IF p \in {"priority", "urgency"} THEN Str("3")
    ELSE IF p = "type" THEN Str("normal")
    ELSE IF p = "risk" THEN Str("moderate")
    ELSE Str("")

\* A call: args holds the optional parameters the caller supplies, kwargs the
\* extra keyword fields (update functions only). short_description and sys_id
\* are always supplied.
Call(fn, args, kwargs) == [fn |-> fn, args |-> args, kwargs |-> kwargs]
NoCall == Call("none", <<>>, <<>>)

\* the value the function body sees for parameter p
Param(c, p) ==
    IF p = "short_description" THEN Str("x")
    ELSE IF p \in DOMAIN c.args THEN c.args[p]
    ELSE Default(c.fn, p)

\* data[k] = v
Put(d, k, v) == [f \in DOMAIN d \cup {k} |-> IF f = k THEN v ELSE d[f]]
\* data[k] = v, whatever v is
PutIfAlways(d, k, v) == Put(d, k, v)
\* if v: data[k] = v
PutIf(d, k, v) == IF Truthy(v) THEN Put(d, k, v) ELSE d
\* data.update(kwargs)
Update(d, kw) ==
    [f \in DOMAIN d \cup DOMAIN kw |-> IF f \in DOMAIN kw THEN kw[f] ELSE d[f]]

\* lines 96-110: the JSON body create_incident posts
create_incident_data(c) ==
    LET d0 == [k \in {"short_description", "description", "priority", "urgency"}
                    |-> Param(c, k)]
        d1 == PutIf(d0, "assignment_group", Param(c, "assignment_group"))
        d2 == PutIf(d1, "assigned_to", Param(c, "assigned_to"))
        d3 == PutIf(d2, "category", Param(c, "category"))
    IN  PutIf(d3, "subcategory", Param(c, "subcategory"))

\* lines 603-616: the JSON body create_change_request posts
create_change_request_data(c) ==
    LET d0 == [k \in {"short_description", "description", "type", "risk", "priority"}
                    |-> Param(c, k)]
        d1 == PutIf(d0, "assignment_group", Param(c, "assignment_group"))
        d2 == PutIf(d1, "start_date", Param(c, "start_date"))
    IN  PutIf(d2, "end_date", Param(c, "end_date"))

\* lines 170-181: the JSON body update_incident patches with
update_incident_data(c) ==
    LET d1 == PutIf(<<>>, "state", Param(c, "state"))
        d2 == PutIf(d1, "work_notes", Param(c, "work_notes"))
        d3 == PutIf(d2, "close_notes", Param(c, "close_notes"))
        d4 == PutIf(d3, "assignment_group", Param(c, "assignment_group"))
        d5 == PutIf(d4, "assigned_to", Param(c, "assigned_to"))
    IN  Update(d5, c.kwargs)

\* lines 673-680: the JSON body update_change_request patches with
update_change_request_data(c) ==
    LET d1 == PutIf(<<>>, "state", Param(c, "state"))
        d2 == PutIf(d1, "work_notes", Param(c, "work_notes"))
        d3 == PutIf(d2, "close_notes", Param(c, "close_notes"))
    IN  Update(d3, c.kwargs)

\* the json= argument of the call's request, the empty mapping when it has none
RequestData(c) ==
    IF c.fn = "create_incident" THEN create_incident_data(c)
    ELSE IF c.fn = "create_change_request" THEN create_change_request_data(c)
    ELSE IF c.fn = "update_incident" THEN update_incident_data(c)
    ELSE IF c.fn = "update_change_request" THEN update_change_request_data(c)
    ELSE <<>>

\* How one HTTP call ends: "timeout", "network" (requests raises), or
\* "response" with a status and a body, which is "object" (a JSON object with
\* a non-empty 'result'), "empty_result" (a JSON object with no or an empty
\* 'result'), "array" (JSON that is not an object) or "notjson".
Http(kind, st, body) == [kind |-> kind, status |-> st, body |-> body]
NoHttp == Http("none", 0, "none")
Bodies == {"object", "empty_result", "array", "notjson"}
HttpSet ==
    {Http("timeout", 0, "none"), Http("network", 0, "none")}
        \cup {Http("response", s, b) : s \in StatusCodes, b \in Bodies}

\* A returned value: isMap says whether it is a mapping, keys are its keys,
\* error is the string under 'error', body the decoded response body it is.
Result(isMap, keys, error, body) ==
    [isMap |-> isMap, keys |-> keys, error |-> error, body |-> body]
NoToolResult == Result(FALSE, {}, <<>>, "none")
\* {"error": str(e)}
ErrorResult(msg) == Result(TRUE, {"error"}, msg, "none")
\* response.json()
JsonResult(b) ==
    Result(b \in {"object", "empty_result"},
           IF b \in {"object", "empty_result"} THEN {"result"} ELSE {}, <<>>, b)
\* {"result": []}, and the literal mappings of lines 478-496 and 505-516
LiteralResult == Result(TRUE, {"result"}, <<>>, "none")
InfoResult == Result(TRUE, {"info"}, <<>>, "none")

\* str(e) of the exception an HTTP call ends with: for an HTTPError the
\* message raise_for_status builds, "<status> Client|Server Error: <reason>
\* for url: <url>"
ExceptionText(h) ==
    IF h.kind = "timeout" THEN <<"Read timed out.">>
    ELSE IF h.kind = "network" THEN <<"Connection error">>
    ELSE IF RaisesForStatus(h.status)
         THEN <<ToString(h.status), " Error: ", "reason", " for url: ", "url">>
    ELSE <<"Expecting value">>

\* the call raises inside the try block: requests.get/post/patch,
\* raise_for_status or response.json()
HttpRaises(h) ==
    \/ h.kind \in {"timeout", "network"}
    \/ RaisesForStatus(h.status)
    \/ h.body = "notjson"

\* the same without raise_for_status
AfterCallNoStatusCheck(h) ==
    IF h.kind \in {"timeout", "network"} \/ h.body = "notjson"
    THEN ErrorResult(ExceptionText(h))
    ELSE JsonResult(h.body)
\* lines 54-73 (and the same code in every other function): what the function
\* returns after its HTTP call ended as h
AfterCall(h) ==
    IF HttpRaises(h) THEN ErrorResult(ExceptionText(h)) ELSE JsonResult(h.body)

\* ------------------------------------------------------------------ state
VARIABLES
    \* one call of query_agent, statement by statement
    qpc,            \* "token", "post", "read", "except", "done", "raised"
    status,         \* response.status_code, 0 before there is a response
    lineNo,         \* lines of the stream read so far
    line,           \* the loop variable "line"
    before,         \* full_response when the current line was read
    full_response,
    lastInvalid,    \* number of the last line that was not valid JSON, or 0
    exc,            \* the exception raised inside the try block
    result          \* the returned string

qvars == <<qpc, status, lineNo, line, before, full_response, lastInvalid, exc, result>>

Threads == {"t1", "t2"}

VARIABLES
    \* the process
    sessions,        \* the dict "sessions": conversation id -> session id
    \* one request per serving thread
    pc,              \* "idle", "create_session", "create_remote", "query_agent"
    req,             \* the request being handled
    conversation_id, \* locals of teams_webhook
    user_id,
    user_message,
    session_id,
    \* history
    ensured,         \* what create_session did for req: how it ended, its result
    last,            \* the exchange completed since the last arrival of a request
                     \* that calls create_session: request, response, calls made
    writes,          \* per conversation id, the ids stored in sessions, in order
    remoteCreates,   \* per conversation id, session-creation POSTs sent
    nextId,          \* ids handed out so far
    creators,        \* per id handed out, the user id create_session was called with
    served           \* requests received so far

wvars == <<sessions, pc, req, conversation_id, user_id, user_message, session_id,
           ensured, last, writes, remoteCreates, nextId, creators, served>>

VARIABLES
    \* one call of a function of snow_tools
    tpc,             \* "idle", "request", "second", "done"
    call,            \* the function and the arguments of the call
    data,            \* the JSON body of its request
    http1,           \* how its HTTP call ended
    http2,           \* how the second call of get_incident_categories ended
    requests_sent,   \* HTTP calls made
    tresult          \* the returned value

tvars == <<tpc, call, data, http1, http2, requests_sent, tresult>>

vars == <<qvars, wvars, tvars>>

NoLine == Line("empty", FALSE, NoEvent)
NoResult == <<>>

InitQ ==
    /\ qpc = "token"
    /\ status = 0
    /\ lineNo = 0
    /\ line = NoLine
    /\ before = <<>>
    /\ full_response = <<>>
    /\ lastInvalid = 0
    /\ exc = NoException
    /\ result = NoResult

\* the try block raises e: control goes to the except clauses
Raise(e) ==
    /\ exc' = e
    /\ qpc' = "except"

\* line 99: get_access_token()
QToken ==
    /\ qpc = "token"
    /\ \/ qpc' = "post" /\ exc' = exc
       \/ \E m \in Messages : Raise(OtherException(m))
    /\ UNCHANGED <<status, lineNo, line, before, full_response, lastInvalid, result>>

\* lines 122-134: requests.post, raise_for_status, full_response = ""
QPost ==
    /\ qpc = "post"
    /\ \/ Raise(Timeout) /\ status' = status
       \/ \E m \in Messages : Raise(OtherException(m)) /\ status' = status
       \/ \E s \in StatusCodes :
            /\ status' = s
            /\ IF RaisesForStatus(s) THEN Raise(HTTPError(s))
               ELSE qpc' = "read" /\ exc' = exc
    /\ UNCHANGED <<lineNo, line, before, full_response, lastInvalid, result>>

\* lines 138-186: one iteration of the loop over response.iter_lines()
QReadLine ==
    /\ qpc = "read"
    /\ lineNo < MaxLines
    /\ \E l \in LineSet :
        /\ line' = l
        /\ before' = full_response
        /\ full_response' = ProcessLine(full_response, l)
        /\ lastInvalid' = IF l.kind = "invalid" THEN lineNo + 1 ELSE lastInvalid
    /\ lineNo' = lineNo + 1
    /\ UNCHANGED <<qpc, status, exc, result>>

\* line 138: iter_lines() raises while the stream is read; which class of
\* exception a read timeout surfaces as is left to the HTTP library
QStreamFail ==
    /\ qpc = "read"
    /\ \/ Raise(Timeout)
       \/ \E m \in Messages : Raise(OtherException(m))
    /\ UNCHANGED <<status, lineNo, line, before, full_response, lastInvalid, result>>

\* lines 188-194: the stream ended
QReturn ==
    /\ qpc = "read"
    /\ result' = ReturnValue(full_response)
    /\ qpc' = "done"
    /\ UNCHANGED <<status, lineNo, line, before, full_response, lastInvalid, exc>>

\* exception classes the except clauses of query_agent catch (lines 196-205)
Caught == {"Timeout", "HTTPError", "Exception"}

\* except clauses that return the text accumulated so far when there is some
QExceptKeepsText ==
    /\ qpc = "except"
    /\ IF exc.cls \in Caught
       THEN /\ result' = IF full_response # <<>> THEN Strip(full_response)
                         ELSE ExceptReturn(exc)
            /\ qpc' = "done"
       ELSE result' = result /\ qpc' = "raised"
    /\ UNCHANGED <<status, lineNo, line, before, full_response, lastInvalid, exc>>

\* lines 196-209
QExcept ==
    /\ qpc = "except"
    /\ IF exc.cls \in Caught
       THEN result' = ExceptReturn(exc) /\ qpc' = "done"
       ELSE result' = result /\ qpc' = "raised"
    /\ UNCHANGED <<status, lineNo, line, before, full_response, lastInvalid, exc>>

NextQ ==
    \/ QToken
    \/ QPost
    \/ QReadLine
    \/ QStreamFail
    \/ QReturn
    \/ QExcept

\* --------------------------------------------------------------- webhook
NoEnsure == [outcome |-> "none", id |-> NoId]
NoQuery == [calls |-> 0, sent |-> 0, session_id |-> NoId, user_id |-> "",
            message |-> <<>>, returned |-> <<>>]

Exchange(r, response, e, q) ==
    [req |-> r, resp |-> response, ensured |-> e, queried |-> q]

NoExchange == Exchange(NoRequest, NoResponse, NoEnsure, NoQuery)

InitW ==
    /\ sessions = <<>>
    /\ pc = [t \in Threads |-> "idle"]
    /\ req = [t \in Threads |-> NoRequest]
    /\ conversation_id = [t \in Threads |-> ""]
    /\ user_id = [t \in Threads |-> ""]
    /\ user_message = [t \in Threads |-> <<>>]
    /\ session_id = [t \in Threads |-> NoId]
    /\ ensured = [t \in Threads |-> NoEnsure]
    /\ last = NoExchange
    /\ writes = [c \in ConvKeys |-> <<>>]
    /\ remoteCreates = [c \in ConvKeys |-> 0]
    /\ nextId = 0
    /\ creators = <<>>
    /\ served = 0

\* ------------------------------------------------------------ tool calls
\* the values a caller passes for an optional parameter of a create function,
\* of an update function, and for an extra keyword field
CreateValues == {Str(""), Str("x")}
UpdateValues == {None, Str(""), Str("x")}
ExtraFields == {"impact"}

\* the mappings from a subset of names to values
ArgSets(names, values) == UNION {[S -> values] : S \in SUBSET names}

CallSet ==
    {Call(fn, <<>>, <<>>) :
        fn \in SimpleTools \cup InfoTools \cup {"get_incident_categories"}}
    \cup {Call(fn, a, <<>>) :
            fn \in {"create_incident"},
            a \in ArgSets(OptionalParams("create_incident"), CreateValues)}
    \cup {Call(fn, a, <<>>) :
            fn \in {"create_change_request"},
            a \in ArgSets(OptionalParams("create_change_request"), CreateValues)}
    \cup {Call(fn, a, kw) :
            fn \in {"update_incident"},
            a \in ArgSets(OptionalParams("update_incident"), UpdateValues),
            kw \in ArgSets(ExtraFields, UpdateValues)}
    \cup {Call(fn, a, kw) :
            fn \in {"update_change_request"},
            a \in ArgSets(OptionalParams("update_change_request"), UpdateValues),
            kw \in ArgSets(ExtraFields, UpdateValues)}

\* lines 444-466: get_incident_categories after its first call ended as h.
\* The result with no keys stands for "go on to the second call".
SecondCall == Result(FALSE, {}, <<>>, "second")
AfterFirstCall(h) ==
    IF HttpRaises(h) THEN ErrorResult(ExceptionText(h))
    ELSE IF h.body = "array" THEN ErrorResult(<<"object has no attribute 'get'">>)
    ELSE IF h.body = "object" THEN SecondCall
    ELSE LiteralResult

InitT ==
    /\ tpc = "idle"
    /\ call = NoCall
    /\ data = <<>>
    /\ http1 = NoHttp
    /\ http2 = NoHttp
    /\ requests_sent = 0
    /\ tresult = NoToolResult

Init == InitQ /\ InitW /\ InitT

\* the handler returns response for request r: its locals are gone
Return(t, r, response, e, q) ==
    /\ last' = Exchange(r, response, e, q)
    /\ pc' = [pc EXCEPT ![t] = "idle"]
    /\ req' = [req EXCEPT ![t] = NoRequest]
    /\ conversation_id' = [conversation_id EXCEPT ![t] = ""]
    /\ user_id' = [user_id EXCEPT ![t] = ""]
    /\ user_message' = [user_message EXCEPT ![t] = <<>>]
    /\ session_id' = [session_id EXCEPT ![t] = NoId]
    /\ ensured' = [ensured EXCEPT ![t] = NoEnsure]

\* lines 219-261 and 284-294: a request arrives and is handled up to its
\* response, or up to its call of create_session
Receive(t) ==
    /\ pc[t] = "idle"
    /\ served < MaxRequests
    /\ \E r \in RequestSet :
        IF Route(r) \in {"welcome", "message"}
        THEN /\ pc' = [pc EXCEPT ![t] = "create_session"]
             /\ req' = [req EXCEPT ![t] = r]
             /\ conversation_id' = [conversation_id EXCEPT ![t] = ConversationId(r)]
             /\ user_id' = [user_id EXCEPT ![t] = UserId(r)]
             /\ user_message' = [user_message EXCEPT ![t] = UserMessage(r)]
             /\ last' = NoExchange
             /\ UNCHANGED <<session_id, ensured>>
        ELSE Return(t, r, DirectResponse(Route(r), sessions), NoEnsure, NoQuery)
    /\ served' = served + 1
    /\ UNCHANGED <<sessions, writes, remoteCreates, nextId, creators>>

\* the same with the query of line 297 made for every activity
AfterCreateSessionAlwaysQuery(t, e) ==
    /\ session_id' = [session_id EXCEPT ![t] = e.id]
    /\ ensured' = [ensured EXCEPT ![t] = e]
    /\ pc' = [pc EXCEPT ![t] = "query_agent"]
    /\ UNCHANGED <<req, conversation_id, user_id, user_message, last>>

\* create_session returns id to line 261 or line 294, having done e
AfterCreateSession(t, e) ==
    IF req[t].type = "conversationUpdate"
    THEN Return(t, req[t], WelcomeResponse, e, NoQuery)
    ELSE /\ session_id' = [session_id EXCEPT ![t] = e.id]
         /\ ensured' = [ensured EXCEPT ![t] = e]
         /\ pc' = [pc EXCEPT ![t] = "query_agent"]
         /\ UNCHANGED <<req, conversation_id, user_id, user_message, last>>

\* lines 37-39: the cache check of create_session
CreateSessionCheck(t) ==
    /\ pc[t] = "create_session"
    /\ IF Cached(sessions, conversation_id[t])
       THEN AfterCreateSession(t, [outcome |-> "cached",
                                   id |-> sessions[conversation_id[t]]])
       ELSE /\ pc' = [pc EXCEPT ![t] = "create_remote"]
            /\ UNCHANGED <<req, conversation_id, user_id, user_message,
                           session_id, ensured, last>>
    /\ UNCHANGED <<sessions, writes, remoteCreates, nextId, creators, served>>

\* lines 41-93: token, session-creation RPC, store, return
CreateSessionRemote(t) ==
    /\ pc[t] = "create_remote"
    /\ \E o \in CreateOutcomes :
        LET c == conversation_id[t]
            id == SessionIdFor(o, nextId + 1)
        IN  /\ sessions' = Store(sessions, c, id)
            /\ writes' = [writes EXCEPT ![c] = Append(@, id)]
            /\ remoteCreates' = [remoteCreates EXCEPT ![c] =
                                    IF RpcSent(o) THEN @ + 1 ELSE @]
            /\ AfterCreateSession(t, [outcome |-> o, id |-> id])
    /\ nextId' = nextId + 1
    /\ creators' = Append(creators, user_id[t])
    /\ UNCHANGED served

\* lines 297-306: query_agent and the reply
QueryAgent(t) ==
    /\ pc[t] = "query_agent"
    /\ \E run \in RunSet :
        Return(t, req[t], MessageResponse(query_agent(run)), ensured[t],
               [calls |-> 1, sent |-> StreamQueries(run),
                session_id |-> session_id[t], user_id |-> user_id[t],
                message |-> user_message[t], returned |-> query_agent(run)])
    /\ UNCHANGED <<sessions, writes, remoteCreates, nextId, creators, served>>

Next ==
    /\ \E t \in Threads :
        \/ Receive(t)
        \/ CreateSessionCheck(t)
        \/ CreateSessionRemote(t)
        \/ QueryAgent(t)
    /\ UNCHANGED <<qvars, tvars>>

\* requests handled one after another: a request arrives only when no other
\* is being handled
NextSeq ==
    /\ \E t \in Threads :
        \/ (\A u \in Threads : pc[u] = "idle") /\ Receive(t)
        \/ CreateSessionCheck(t)
        \/ CreateSessionRemote(t)
        \/ QueryAgent(t)
    /\ UNCHANGED <<qvars, tvars>>

Spec == Init /\ [][Next]_vars

SpecSeq == Init /\ [][NextSeq]_vars

SpecQuery == Init /\ [][NextQ /\ UNCHANGED <<wvars, tvars>>]_vars

\* a tool is called: its code up to the HTTP call, or, of the two functions
\* of lines 471-516, up to the return
TCall ==
    /\ tpc = "idle"
    /\ \E c \in CallSet :
        /\ call' = c
        /\ data' = RequestData(c)
        /\ IF c.fn \in InfoTools
           THEN tpc' = "done" /\ tresult' = InfoResult
           ELSE tpc' = "request" /\ tresult' = NoToolResult
    /\ http1' = NoHttp
    /\ http2' = NoHttp
    /\ requests_sent' = 0

\* the HTTP call of the function and what follows it
THttp ==
    /\ tpc = "request"
    /\ \E h \in HttpSet :
        /\ http1' = h
        /\ IF call.fn = "get_incident_categories"
           THEN IF AfterFirstCall(h) = SecondCall
                THEN tpc' = "second" /\ tresult' = tresult
                ELSE tpc' = "done" /\ tresult' = AfterFirstCall(h)
           ELSE tpc' = "done" /\ tresult' = AfterCall(h)
    /\ requests_sent' = 1
    /\ UNCHANGED <<call, data, http2>>

\* lines 455-464: the second call of get_incident_categories
THttp2 ==
    /\ tpc = "second"
    /\ \E h \in HttpSet :
        /\ http2' = h
        /\ tresult' = AfterCall(h)
    /\ tpc' = "done"
    /\ requests_sent' = 2
    /\ UNCHANGED <<call, data, http1>>

NextT ==
    \/ TCall
    \/ THttp
    \/ THttp2

SpecTools == Init /\ [][NextT /\ UNCHANGED <<qvars, wvars>>]_vars

\* ---------------------------------------------------------------- claims
RECURSIVE Cat(_)
Cat(ss) == IF ss = <<>> THEN <<>> ELSE Head(ss) \o Cat(Tail(ss))

IsJsonObject(l) == l.kind = "json" /\ l.data.isObj
HasPartsList(l) == IsJsonObject(l) /\ l.data.content = "parts"

\* a part that has a string 'text' field and no 'function_call' field
Qualifies(p) == p.isMap /\ p.hasText /\ p.textIsStr /\ ~p.hasFC
\* a part on which the loop body raises
Malformed(p) == ~p.isMap \/ (p.hasText /\ ~p.textIsStr /\ ~p.hasFC)

QualifyingTexts(ps) ==
    Cat([i \in 1..Len(ps) |-> IF Qualifies(ps[i]) THEN ps[i].text ELSE <<>>])

\* the parts of ps in front of its first malformed part
WellFormedPrefix(ps) ==
    LET bad == {i \in 1..Len(ps) : Malformed(ps[i])}
    IN  IF bad = {} THEN ps
        ELSE SubSeq(ps, 1, (CHOOSE i \in bad : \A j \in bad : i <= j) - 1)

PartsContribution(l) ==
    IF HasPartsList(l) THEN QualifyingTexts(WellFormedPrefix(l.data.parts))
    ELSE <<>>

TopLevelContribution(l) ==
    IF IsJsonObject(l) /\ l.data.content = "absent" /\ l.data.top = "str"
    THEN l.data.text ELSE <<>>

EndsWith(s, t) ==
    /\ Len(s) >= Len(t)
    /\ SubSeq(s, Len(s) - Len(t) + 1, Len(s)) = t

\* C5 as claimed: every parsed event with a top-level 'text' field has that
\* text appended, whatever other fields it carries.
C5_AsClaimed ==
    (lineNo > 0 /\ IsJsonObject(line) /\ line.data.top = "str") =>
        /\ Len(full_response) >= Len(before) + Len(line.data.text)
        /\ EndsWith(full_response, line.data.text)

\* C5 amended: the top-level string 'text' of a parsed event is appended when
\* the event has no 'content' field, and is ignored when it has one (with or
\* without 'parts').
C5_TopLevelText ==
    (lineNo > 0 /\ IsJsonObject(line) /\ line.data.top = "str") =>
        IF line.data.content = "absent"
        THEN full_response = before \o line.data.text
        ELSE full_response = before \o PartsContribution(line)

C5_Witness ==
    /\ lineNo > 1
    /\ IsJsonObject(line)
    /\ line.data.top = "str"
    /\ line.data.content = "absent"
    /\ before # <<>>
    /\ full_response = before \o <<"b">>

\* r is f without its leading and trailing whitespace
IsTrimOf(r, f) ==
    /\ r # <<>> => r[1] \notin Whitespace /\ r[Len(r)] \notin Whitespace
    /\ \E i \in 0..Len(f) :
        /\ i + Len(r) <= Len(f)
        /\ SubSeq(f, i + 1, i + Len(r)) = r
        /\ \A k \in 1..Len(f) : (k <= i \/ k > i + Len(r)) => f[k] \in Whitespace

\* C6: when the stream is read to its end, query_agent returns the accumulated
\* text without leading and trailing whitespace if any text was accumulated,
\* and the fixed message exactly when nothing was accumulated.
C6_ReturnValue ==
    (qpc = "done" /\ exc.cls = "none") =>
        /\ full_response # <<>> => IsTrimOf(result, full_response)
        /\ result = NoResponseMsg <=> full_response = <<>>

C6_Witness ==
    /\ qpc = "done"
    /\ exc.cls = "none"
    /\ result # <<>>
    /\ Len(full_response) >= Len(result) + 2
    /\ full_response[1] \in Whitespace
    /\ full_response[Len(full_response)] \in Whitespace

\* every exception the try block of query_agent can raise
Exceptions ==
    {Timeout} \cup {HTTPError(s) : s \in {t \in StatusCodes : RaisesForStatus(t)}}
    \cup {OtherException(m) : m \in Messages}

\* C7: query_agent never raises; a timeout, an HTTP error status and any other
\* exception each end the call with a returned string, 'The request timed
\* out...', 'Error: HTTP ...' and 'An error occurred: ...', which differ.
C7_NeverRaises ==
    /\ qpc # "raised"
    /\ (qpc = "done" /\ exc.cls # "none") =>
        /\ exc.cls = "Timeout" => result = TimeoutMsg
        /\ exc.cls = "HTTPError" => Len(result) = 2 /\ result[1] = HttpErrorPrefix
        /\ exc.cls = "Exception" => result = <<GenericErrorPrefix, exc.msg>>
        /\ \A e \in Exceptions : e.cls # exc.cls => ExceptReturn(e) # result

C7_Witness ==
    /\ qpc = "done"
    /\ exc.cls = "Timeout"
    /\ status = 0
    /\ result = TimeoutMsg

\* C8: when the stream-query endpoint answers with an error status s, the
\* returned string is 'Error: HTTP s'.
C8_StatusInMessage ==
    (qpc = "done" /\ exc.cls = "HTTPError") =>
        result = <<HttpErrorPrefix, ToString(status)>>

\* ------------------------------------------------ claims about the webhook
Last(s) == s[Len(s)]

\* C1: for requests handled one after another, once create_session has stored
\* an id for a conversation id, every later call for it returns that id
\* without a remote call, and the entry is never removed or replaced: at most
\* one session-creation call is made, and one id is ever stored, per
\* conversation id.
C1_SessionCache ==
    /\ \A c \in ConvKeys :
        /\ remoteCreates[c] <= 1
        /\ Len(writes[c]) <= 1
        /\ c \in DOMAIN sessions <=> writes[c] # <<>>
        /\ c \in DOMAIN sessions => sessions[c] = writes[c][1]
    /\ \A t \in Threads :
        ensured[t].outcome = "cached" =>
            ensured[t].id = writes[conversation_id[t]][1]
    /\ last.ensured.outcome = "cached" =>
            last.ensured.id = writes[ConversationId(last.req)][1]

\* a second request of a conversation answered with the session id the first
\* one created remotely
C1_Witness ==
    /\ last.req.type = "message"
    /\ last.ensured.outcome = "cached"
    /\ last.ensured.id.kind = "remote"
    /\ last.queried.session_id = sessions[ConversationId(last.req)]
    /\ remoteCreates[ConversationId(last.req)] = 1
    /\ served = 2

\* C2: create_session never raises; when the conversation id is not cached and
\* token acquisition or the RPC fails, or the result carries no output.id, a
\* fallback id is stored under the conversation id and returned.
C2_Fallback ==
    [][\A t \in Threads :
        pc[t] = "create_remote" /\ pc'[t] # "create_remote" =>
            LET e == IF pc'[t] = "query_agent" THEN ensured'[t] ELSE last'.ensured
            IN  /\ pc'[t] \in {"query_agent", "idle"}
                /\ pc'[t] = "query_agent" => session_id'[t] = e.id
                /\ pc'[t] = "idle" => last'.resp = WelcomeResponse
                /\ e.outcome \in CreateFailures =>
                    /\ e.id.kind = "fallback"
                    /\ conversation_id[t] \in DOMAIN sessions'
                    /\ sessions'[conversation_id[t]] = e.id]_vars

C2_Witness ==
    \E t \in Threads :
        /\ pc[t] = "query_agent"
        /\ ensured[t].outcome = "no_id"
        /\ session_id[t].kind = "fallback"
        /\ sessions[conversation_id[t]] = session_id[t]

\* C3: overlapping requests of an uncached conversation id can each make a
\* session-creation call; the mapping then holds one id for the conversation,
\* the one written last, and a request that wrote earlier queries the agent
\* with an id that is no longer in the mapping.
C3_LastWriteWins ==
    /\ \A c \in ConvKeys :
        /\ c \in DOMAIN sessions <=> writes[c] # <<>>
        /\ c \in DOMAIN sessions => sessions[c] = Last(writes[c])
        /\ remoteCreates[c] <= Len(writes[c])
        /\ Len(writes[c]) <= Cardinality(Threads)
    /\ \A t \in Threads :
        (pc[t] = "query_agent" /\ session_id[t] # sessions[conversation_id[t]]) =>
            \E i \in 1..(Len(writes[conversation_id[t]]) - 1) :
                writes[conversation_id[t]][i] = session_id[t]

C3_Witness ==
    \E t \in Threads :
        LET c == conversation_id[t]
        IN  /\ pc[t] = "query_agent"
            /\ remoteCreates[c] = 2
            /\ Len(writes[c]) = 2
            /\ session_id[t] = writes[c][1]
            /\ sessions[c] = writes[c][2]
            /\ session_id[t] # sessions[c]

\* a POST activity of type 'message' whose text is non-empty after trimming
IsMessagePost(r) ==
    /\ r.method = "POST"
    /\ r.body = "activity"
    /\ r.type = "message"
    /\ r.textKind = "str"
    /\ \E i \in 1..Len(r.text) : r.text[i] \notin Whitespace

\* a POST activity of type 'message' whose text is empty or only whitespace
IsEmptyMessagePost(r) ==
    /\ r.method = "POST"
    /\ r.body = "activity"
    /\ r.type = "message"
    /\ r.textKind = "str"
    /\ \A i \in 1..Len(r.text) : r.text[i] \in Whitespace

\* the request is not for the path '/health', and its 'conversation' and
\* 'from' fields are objects or absent
ReachesActivityBranches(r) ==
    /\ r.path # "/health"
    /\ r.conv # "other"
    /\ r.from # "other"

\* C9 as claimed: every POST 'message' activity with non-empty trimmed text has
\* a session ensured, exactly one stream query sent with that session id and
\* the trimmed text, and the reply 200 with the string query_agent returned.
C9_AsClaimed ==
    IsMessagePost(last.req) =>
        /\ last.ensured.outcome # "none"
        /\ last.queried.sent = 1
        /\ last.queried.session_id = last.ensured.id
        /\ IsTrimOf(last.queried.message, last.req.text)
        /\ last.resp = Response(200, "message", last.queried.returned, 0)

\* C9 amended: for a path other than '/health' and 'conversation' and 'from'
\* fields that are objects or absent, a session id stored for the conversation
\* id is obtained from create_session, query_agent is
\* called once with that session id, the user id and the trimmed text, sends at
\* most one stream query (none only when it returns 'An error occurred: ...'),
\* and the reply is 200 with the string query_agent returned.
C9_MessageExchange ==
    (IsMessagePost(last.req) /\ ReachesActivityBranches(last.req)) =>
        /\ last.ensured.outcome # "none"
        /\ \E i \in 1..Len(writes[ConversationId(last.req)]) :
                writes[ConversationId(last.req)][i] = last.ensured.id
        /\ last.queried.calls = 1
        /\ last.queried.sent <= 1
        /\ last.queried.sent = 0 => last.queried.returned[1] = GenericErrorPrefix
        /\ last.queried.session_id = last.ensured.id
        /\ last.queried.user_id = UserId(last.req)
        /\ IsTrimOf(last.queried.message, last.req.text)
        /\ last.resp = Response(200, "message", last.queried.returned, 0)

\* session creation and the query both failed, and the reply is still a 200
C9_Witness ==
    /\ IsMessagePost(last.req)
    /\ ReachesActivityBranches(last.req)
    /\ last.ensured.outcome = "rpc_error"
    /\ last.queried.sent = 1
    /\ last.queried.session_id.kind = "fallback"
    /\ last.resp = Response(200, "message", <<HttpErrorPrefix, "Unknown">>, 0)

EmptyMessageResponse == Response(400, "error", <<"Empty message">>, 0)

\* C10 as claimed: every POST 'message' activity whose text is empty or only
\* whitespace is answered with {"error": "Empty message"} and status 400.
C10_AsClaimed ==
    IsEmptyMessagePost(last.req) => last.resp = EmptyMessageResponse

\* C10 amended: the same, for a path other than '/health' and 'conversation'
\* and 'from' fields that are objects or absent.
C10_EmptyMessage ==
    (IsEmptyMessagePost(last.req) /\ ReachesActivityBranches(last.req)) =>
        /\ last.resp = EmptyMessageResponse
        /\ last.ensured = NoEnsure
        /\ last.queried = NoQuery

C10_Witness ==
    /\ IsEmptyMessagePost(last.req)
    /\ ReachesActivityBranches(last.req)
    /\ last.req.text = <<" ">>
    /\ last.resp = EmptyMessageResponse

\* the step in which request r is answered without a call of create_session
Answered(r) ==
    /\ served' = served + 1
    /\ last' # NoExchange
    /\ last'.req = r

HealthResponse(n) == Response(200, "health", <<"healthy">>, n)

\* C11: whenever a GET /health is answered, whatever requests came before and
\* whatever requests are being handled at that moment, the answer is HTTP 200
\* with status 'healthy' and active_sessions equal to the number of
\* conversation ids in the session mapping at that moment.
C11_Health ==
    [][Answered(Plain("GET", "/health", "none")) =>
            /\ last'.resp = HealthResponse(Cardinality(DOMAIN sessions))
            /\ sessions' = sessions]_vars

\* a health check answered after a session was stored
C11_Witness ==
    /\ last.req = Plain("GET", "/health", "none")
    /\ last.resp = HealthResponse(1)
    /\ Cardinality(DOMAIN sessions) = 1

\* a POST request whose body is a chat activity
IsActivityPost(r) == r.method = "POST" /\ r.body = "activity"

PreflightResponse == Response(204, "preflight", <<>>, 0)

\* C12 as claimed: every OPTIONS request is answered with the 204 preflight
\* and no POST of a chat activity is answered with the health payload, whatever
\* the path.
C12_AsClaimed ==
    /\ last.req.method = "OPTIONS" => last.resp = PreflightResponse
    /\ IsActivityPost(last.req) => last.resp.kind # "health"

\* the answers an activity gets: a message (200), {"status": "ok"} (200), an
\* error (400) or the apology (500)
ActivityAnswers(resp) ==
    \/ resp.status = 200 /\ resp.kind = "message"
    \/ resp = Response(200, "status", <<"ok">>, 0)
    \/ resp.status = 400 /\ resp.kind = "error"
    \/ resp = Response(500, "message", Apology, 0)

\* C12 amended: routing depends on the path only through '/health'. A request
\* for '/health' gets the health payload whatever its method; on every other
\* path an OPTIONS request gets the 204 preflight and a POST of a chat activity
\* is processed as an activity, as the same request for '/' is, and is never
\* answered with the health payload.
C12_Routing ==
    /\ last.req.path = "/health" =>
            last.resp.status = 200 /\ last.resp.kind = "health"
    /\ (last.req.path # "/health" /\ last.req.method = "OPTIONS") =>
            last.resp = PreflightResponse
    /\ (last.req.path # "/health" /\ IsActivityPost(last.req)) =>
            ActivityAnswers(last.resp)
    /\ \A r \in RequestSet :
            r.path # "/health" => Route(r) = Route([r EXCEPT !.path = "/"])

\* a message posted to a path other than '/' is answered as a message
C12_Witness ==
    /\ IsActivityPost(last.req)
    /\ last.req.path = "/api/messages"
    /\ last.queried.calls = 1
    /\ last.resp.status = 200
    /\ last.resp.kind = "message"

ApologyResponse == Response(500, "message", Apology, 0)

\* C14: no exception leaves teams_webhook. Every exchange ends with an HTTP
\* response (200, 204, 400 or 500), and a request whose processing as an
\* activity raises (a body that is not JSON or not an object, a 'text',
\* 'conversation' or 'from' field of the wrong type) is answered with the
\* apology message and status 500.
C14_NoEscape ==
    /\ last.req # NoRequest =>
            /\ last.resp.status \in {200, 204, 400, 500}
            /\ last.resp # Escaped
    /\ (last.req # NoRequest /\ Route(last.req) \notin {"health", "preflight"}
            /\ RaisingLine(last.req) # 0) =>
            last.resp = ApologyResponse
    /\ \A t \in Threads :
            pc[t] # "idle" => Route(req[t]) \in {"welcome", "message"}

\* a body that is not JSON: get_json() raises inside the try block
C14_Witness ==
    /\ last.req = Plain("POST", "/", "malformed")
    /\ RaisingLine(last.req) = 241
    /\ last.resp = ApologyResponse

\* a POST activity of type 'conversationUpdate' with a non-empty membersAdded
IsWelcomePost(r) ==
    /\ IsActivityPost(r)
    /\ r.type = "conversationUpdate"
    /\ r.members = "nonempty"

IsStoringPost(r) == IsWelcomePost(r) \/ IsMessagePost(r)

\* the mapping differs at most in the entry of c, which it has afterwards
SetsEntry(c) ==
    /\ DOMAIN sessions' = DOMAIN sessions \cup {c}
    /\ \A k \in DOMAIN sessions \ {c} : sessions'[k] = sessions[k]

\* C19 as claimed: the mapping changes only while such an activity is handled,
\* and only by getting a new entry for that activity's conversation id.
C19_AsClaimed ==
    [][sessions' # sessions =>
        \E t \in Threads :
            /\ IsStoringPost(req[t])
            /\ ConversationId(req[t]) \notin DOMAIN sessions
            /\ SetsEntry(ConversationId(req[t]))]_vars

\* C19 amended: the mapping changes and a session-creation call is made only
\* in create_session called for such an activity, and only the entry of that
\* activity's conversation id is set: added, or replaced when an overlapping
\* request for the same conversation id stored one in between. A request
\* answered without create_session (health check, preflight, no activity data,
\* empty text, empty membersAdded, another type, the 500 reply) leaves the
\* mapping unchanged and makes no remote call.
C19_Frame ==
    [][/\ (sessions' # sessions \/ remoteCreates' # remoteCreates) =>
            \E t \in Threads :
                /\ pc[t] = "create_remote"
                /\ pc'[t] # "create_remote"
                /\ IsStoringPost(req[t])
                /\ SetsEntry(ConversationId(req[t]))
                /\ \A k \in ConvKeys \ {ConversationId(req[t])} :
                        remoteCreates'[k] = remoteCreates[k]
       /\ \A r \in RequestSet :
            Answered(r) =>
                /\ ~(IsStoringPost(r) /\ ReachesActivityBranches(r))
                /\ sessions' = sessions
                /\ remoteCreates' = remoteCreates
                /\ last'.ensured = NoEnsure
                /\ last'.queried = NoQuery]_vars

\* an activity of another type, answered while the mapping holds an entry
C19_Witness ==
    /\ last.req.type = "typing"
    /\ last.resp = Response(200, "status", <<"ok">>, 0)
    /\ DOMAIN sessions = {"c1"}
    /\ remoteCreates["c1"] = 1
    /\ Len(writes["c1"]) = 1

\* C20: in every stream query sent for a session the remote service created,
\* the user id that goes with the session id is the user id create_session
\* sent when it created that session.
C20_CreatorQueries ==
    (last.queried.sent = 1 /\ last.queried.session_id.kind = "remote") =>
        creators[last.queried.session_id.n] = last.queried.user_id

\* an HTTP call that got a non-2xx status, timed out, failed on the network or
\* returned a body that is not JSON
CallFailed(h) ==
    \/ h.kind \in {"timeout", "network"}
    \/ h.kind = "response" /\ (h.status \notin 200..299 \/ h.body = "notjson")

C16_HttpErrorDistinguished ==
    (tpc = "done" /\ http1.kind = "response" /\ RaisesForStatus(http1.status)) =>
        /\ tresult.keys # ErrorResult(<<>>).keys
        /\ tresult.body = http1.body

\* C17: in the POST body of create_incident and create_change_request, an
\* optional parameter the caller did not supply is absent, and no field has
\* the empty string as its value.
C17_OmitsUnsupplied ==
    (tpc # "idle" /\ call.fn \in CreateTools) =>
        /\ \A p \in OptionalParams(call.fn) :
                p \notin DOMAIN call.args => p \notin DOMAIN data
        /\ \A k \in DOMAIN data : data[k] # Str("")

\* C18 as claimed: the keys of the PATCH body of update_incident and
\* update_change_request are exactly the named parameters and extra keyword
\* fields the caller provided, a named parameter provided with the empty
\* string and an extra field provided with null included. (A named parameter
\* passed as None, its default, counts here as not covered by the claim.)
C18_AsClaimed ==
    (tpc # "idle" /\ call.fn \in UpdateTools
        /\ \A p \in DOMAIN call.args : call.args[p] # None) =>
            DOMAIN data = DOMAIN call.args \cup DOMAIN call.kwargs

\* C18 amended: the keys of the PATCH body are exactly the named parameters the
\* caller provided with a non-empty string together with every extra keyword
\* field the caller provided, each with the value provided: a named parameter
\* omitted, None or the empty string is left out, an extra keyword field is
\* sent whatever its value.
C18_PatchBody ==
    (tpc # "idle" /\ call.fn \in UpdateTools) =>
        /\ DOMAIN data =
                {p \in DOMAIN call.args : call.args[p] \notin {None, Str("")}}
                    \cup DOMAIN call.kwargs
        /\ \A k \in DOMAIN data :
                data[k] = IF k \in DOMAIN call.kwargs THEN call.kwargs[k]
                          ELSE call.args[k]

\* an empty 'state' is left out, a null extra field is sent
C18_Witness ==
    /\ tpc = "done"
    /\ call.fn = "update_incident"
    /\ DOMAIN call.args = {"state", "work_notes"}
    /\ call.args["state"] = Str("")
    /\ call.args["work_notes"] = Str("x")
    /\ DOMAIN call.kwargs = {"impact"}
    /\ call.kwargs["impact"] = None
    /\ DOMAIN data = {"work_notes", "impact"}
    /\ data["impact"] = None

\* the pieces text is made of
Tokens(s) == {s[i] : i \in 1..Len(s)}

\* reading the stream raised after the POST was answered and text was
\* accumulated
StreamFailedWithText ==
    /\ qpc = "done"
    /\ exc.cls \in {"Timeout", "Exception"}
    /\ ~RaisesForStatus(status)
    /\ status # 0
    /\ lineNo > 0
    /\ full_response # <<>>

\* C21: when reading the response stream fails after text was accumulated,
\* query_agent returns the timeout string or the generic error string, which
\* holds none of the accumulated text, and the reply the webhook builds from
\* it is a 200 message with that string as its text.
C21_PartialTextDropped ==
    StreamFailedWithText =>
        /\ \/ exc.cls = "Timeout" /\ result = TimeoutMsg
           \/ exc.cls = "Exception" /\ result = <<GenericErrorPrefix, exc.msg>>
        /\ Tokens(result) \cap Tokens(full_response) = {}
        /\ MessageResponse(result) = Response(200, "message", result, 0)

\* two lines of text were read, then the connection failed
C21_Witness ==
    /\ StreamFailedWithText
    /\ exc.cls = "Exception"
    /\ lineNo = 2
    /\ Len(full_response) >= 2
    /\ \E i \in 1..Len(full_response) : full_response[i] \notin Whitespace
    /\ result = <<GenericErrorPrefix, "boom">>

\* C22: the text of every 200 message reply to a 'message' activity is
\* non-empty, and it is the string query_agent returned.
C22_NonEmptyReply ==
    (IsMessagePost(last.req) /\ last.queried.calls = 1
        /\ last.resp.status = 200 /\ last.resp.kind = "message") =>
            /\ last.resp.text = last.queried.returned
            /\ last.resp.text # <<>>

====
